---- MODULE Spec2Model ----
(***************************************************************************)
(* pullhook: an HTTP daemon that runs "git pull" when a signed GitHub push *)
(* webhook arrives (main.go).                                              *)
(*                                                                         *)
(* The model has one process for mainImpl, one for the goroutine started   *)
(* by "go http.ListenAndServe", and MaxConn handler goroutines, each       *)
(* running server.ServeHTTP on one request at a time.  The statements of   *)
(* ServeHTTP before pullRepo touch no shared state, so they are taken as   *)
(* one step; pullRepo (an external command of unbounded duration) and the  *)
(* statement after it are steps of their own.                              *)
(***************************************************************************)
EXTENDS Integers, FiniteSets, Sequences, TLC

\* ------------------------------------------------------------------ bounds
\* Number of connections net/http serves concurrently (one goroutine each).
MaxConn == 2

Conns == 1..MaxConn

\* ------------------------------------------------------- request universe
\* r.URL.Path values: the empty path, the root, and a non-root path.
Paths == {"", "/", "/foo"}

\* r.Method values: the three the handler names and one other.
Methods == {"HEAD", "GET", "POST", "PUT"}

\* X-GitHub-Event values: ping, push, another event go-github knows, and
\* one it does not know.
EventTypes == {"ping", "push", "issues", "bogus"}

KnownEventTypes == {"ping", "push", "issues"}

\* Raw request bodies, by what json.Unmarshal makes of them.  repo is the
\* "repository" member (absent, present without full_name, or complete),
\* ref the "ref" member, head the "head_commit" member (absent/null, present
\* without id, or complete).
Body(json, repo, ref, head) ==
    [json |-> json, repo |-> repo, ref |-> ref, head |-> head]

Garbage     == Body(FALSE, "nil", FALSE, "nil")   \* not JSON
PushFull    == Body(TRUE, "full", TRUE, "full")   \* an ordinary push
PushDeleted == Body(TRUE, "full", TRUE, "nil")    \* a branch deletion
EmptyObject == Body(TRUE, "nil", FALSE, "nil")    \* {}
HeadNoRepo  == Body(TRUE, "nil", TRUE, "full")    \* head_commit, no repository
HeadNoID    == Body(TRUE, "full", TRUE, "noid")   \* head_commit without id

Bodies == {Garbage, PushFull, PushDeleted, EmptyObject, HeadNoRepo, HeadNoID}

\* The -secret flag value held in server.WebHookSecret, and a key the sender
\* of a forged request might use instead.
ConfiguredSecret == "s3cret"
ForeignSecret    == "guess"

\* A keyed digest of the raw body.  Distinct (key, body) pairs give distinct
\* digests, as HMAC does up to collisions.
HMAC(key, body) == <<key, body>>

\* X-Hub-Signature header: "<tag>=<hex digest>".
Signature(tag, mac) == [tag |-> tag, mac |-> mac]

NoSignature      == Signature("", <<>>)        \* header absent
GarbledSignature == Signature("sha1", <<>>)    \* digest is not valid hex

\* A body the sender may have signed before the body was altered.
Tampered(body) == IF body = PushFull THEN PushDeleted ELSE PushFull

\* The signature headers tried with a given body: none, malformed, correct,
\* correct for the body before it was altered, and signed with another key.
SignaturesFor(body) ==
    { NoSignature,
      GarbledSignature,
      Signature("sha1", HMAC(ConfiguredSecret, body)),
      Signature("sha1", HMAC(ConfiguredSecret, Tampered(body))),
      Signature("sha1", HMAC(ForeignSecret, body)) }

Request(path, method, sig, type, body) ==
    [path |-> path, method |-> method, sig |-> sig, type |-> type, body |-> body]

Requests ==
    UNION { { Request(p, m, s, t, b) :
                p \in Paths, m \in Methods, t \in EventTypes,
                s \in SignaturesFor(b) } : b \in Bodies }

NoRequest == Request("-", "-", NoSignature, "-", Garbage)

\* ------------------------------------------------- the go-github interface
\* github.ValidatePayload(r, secret): reads the body and checks the
\* X-Hub-Signature header against the HMAC of the body under the secret.
\* A missing header, an unparsable one and a digest mismatch are errors.
ValidatePayload(r, secret) ==
    [err     |-> ~ (r.sig.tag = "sha1" /\ r.sig.mac = HMAC(secret, r.body)),
     payload |-> r.body]

\* github.WebHookType(r): the X-GitHub-Event header.
WebHookType(r) == r.type

\* github.ParseWebHook(t, payload): an error for an event type it does not
\* know or a payload that is not JSON; otherwise the event, whose pointer
\* fields are nil where the payload has no such member.
ParseWebHook(t, payload) ==
    IF t \notin KnownEventTypes \/ ~ payload.json
    THEN [err |-> TRUE, event |-> [kind |-> "none"]]
    ELSE IF t = "push"
    THEN [err   |-> FALSE,
          event |-> [kind |-> "PushEvent", Repo |-> payload.repo,
                     Ref |-> payload.ref, HeadCommit |-> payload.head]]
    ELSE [err |-> FALSE, event |-> [kind |-> "IssuesEvent"]]

\* ------------------------------------------------------ server.ServeHTTP
\* What one run of the handler does up to its return, its panic, or its
\* call of pullRepo: the status and body written so far, the calls made in
\* order, and how the run goes on.
Outcome(status, body, calls, next) ==
    [status |-> status, body |-> body, calls |-> calls, next |-> next]

\* The path test of ServeHTTP: the request is for the root.
IsRootPath_or(path) == ~ (path # "" \/ path # "/")

IsRootPath(path) == ~ (path # "" /\ path # "/")

\* The type switch on the parsed event.  Dereferencing a nil pointer field
\* while building the log line panics.
OnEvent_pullOnDelete(event, calls) ==
    IF event.kind = "PushEvent"
    THEN IF event.Repo # "full" \/ ~ event.Ref
         THEN Outcome(0, "", calls, "panic")
         ELSE Outcome(0, "", Append(calls, "pullRepo"), "pullRepo")
    ELSE Outcome(200, "{}", calls, "return")

OnEvent(event, calls) ==
    IF event.kind = "PushEvent"
    THEN IF event.HeadCommit = "nil"
         THEN IF event.Repo # "full" \/ ~ event.Ref
              THEN Outcome(0, "", calls, "panic")
              ELSE Outcome(200, "{}", calls, "return")
         ELSE IF event.Repo # "full" \/ ~ event.Ref \/ event.HeadCommit # "full"
              THEN Outcome(0, "", calls, "panic")
              ELSE Outcome(0, "", Append(calls, "pullRepo"), "pullRepo")
    ELSE Outcome(200, "{}", calls, "return")

\* The POST branch: signature, event type, payload.
OnPost_noReturn(r, secret) ==
    LET t == WebHookType(r) IN
    IF t # "ping"
    THEN LET p == ParseWebHook(t, r.body) IN
         IF p.err
         THEN Outcome(400, "Invalid payload",
                      <<"ValidatePayload", "WebHookType", "ParseWebHook">>,
                      "return")
         ELSE OnEvent(p.event,
                      <<"ValidatePayload", "WebHookType", "ParseWebHook">>)
    ELSE Outcome(200, "{}", <<"ValidatePayload", "WebHookType">>, "return")

OnPost(r, secret) ==
    LET v == ValidatePayload(r, secret) IN
    IF v.err
    THEN Outcome(401, "Invalid secret", <<"ValidatePayload">>, "return")
    ELSE LET t == WebHookType(r) IN
         IF t # "ping"
         THEN LET p == ParseWebHook(t, v.payload) IN
              IF p.err
              THEN Outcome(400, "Invalid payload",
                           <<"ValidatePayload", "WebHookType", "ParseWebHook">>,
                           "return")
              ELSE OnEvent(p.event,
                           <<"ValidatePayload", "WebHookType", "ParseWebHook">>)
         ELSE Outcome(200, "{}", <<"ValidatePayload", "WebHookType">>, "return")

ServeHTTP_signatureFirst(r, secret) ==
    IF ~ IsRootPath(r.path)
    THEN Outcome(404, "404 page not found", <<>>, "return")
    ELSE IF ValidatePayload(r, secret).err
    THEN Outcome(401, "Invalid secret", <<"ValidatePayload">>, "return")
    ELSE IF r.method = "HEAD"
    THEN Outcome(200, "", <<>>, "return")
    ELSE IF r.method = "GET"
    THEN Outcome(200, "uptime", <<>>, "return")
    ELSE IF r.method # "POST"
    THEN Outcome(405, "Invalid method", <<>>, "return")
    ELSE OnPost(r, secret)

ServeHTTP(r, secret) ==
    IF ~ IsRootPath(r.path)
    THEN Outcome(404, "404 page not found", <<>>, "return")
    ELSE IF r.method = "HEAD"
    THEN Outcome(200, "", <<>>, "return")
    ELSE IF r.method = "GET"
    THEN Outcome(200, "uptime", <<>>, "return")
    ELSE IF r.method # "POST"
    THEN Outcome(405, "Invalid method", <<>>, "return")
    ELSE OnPost(r, secret)

\* ---------------------------------------------------------- unicode/utf8
\* utf8.RuneError, U+FFFD: what DecodeRune returns for an ill-formed byte,
\* and also the rune of the well-formed encoding EF BF BD.
RuneError == 65533

\* The length the first byte of an encoding announces; 0 for a byte that
\* cannot start one (80..C1, F5..FF).
SizeOf(p0) ==
    IF p0 < 128 THEN 1
    ELSE IF p0 >= 194 /\ p0 <= 223 THEN 2
    ELSE IF p0 >= 224 /\ p0 <= 239 THEN 3
    ELSE IF p0 >= 240 /\ p0 <= 244 THEN 4
    ELSE 0

\* The range the second byte must be in (utf8.acceptRanges).
AcceptLo(p0) == IF p0 = 224 THEN 160 ELSE IF p0 = 240 THEN 144 ELSE 128
AcceptHi(p0) == IF p0 = 237 THEN 159 ELSE IF p0 = 244 THEN 143 ELSE 191

IsContinuation(x) == x >= 128 /\ x <= 191

\* b starts with one well-formed encoding.
StartsWellFormed(b) ==
    /\ Len(b) >= 1
    /\ LET sz == SizeOf(b[1]) IN
         /\ sz >= 1
         /\ Len(b) >= sz
         /\ sz >= 2 => (b[2] >= AcceptLo(b[1]) /\ b[2] <= AcceptHi(b[1]))
         /\ sz >= 3 => IsContinuation(b[3])
         /\ sz >= 4 => IsContinuation(b[4])

\* utf8.DecodeRune(b) for a non-empty b: the rune and its width, or
\* (RuneError, 1) if b does not start with a well-formed encoding.
DecodeRune(b) ==
    IF ~ StartsWellFormed(b) THEN [r |-> RuneError, size |-> 1]
    ELSE LET sz == SizeOf(b[1]) IN
         [r |-> IF sz = 1 THEN b[1]
                ELSE IF sz = 2 THEN (b[1] - 192) * 64 + (b[2] - 128)
                ELSE IF sz = 3
                THEN (b[1] - 224) * 4096 + (b[2] - 128) * 64 + (b[3] - 128)
                ELSE (b[1] - 240) * 262144 + (b[2] - 128) * 4096
                       + (b[3] - 128) * 64 + (b[4] - 128),
          size |-> sz]

Drop(b, n) == SubSeq(b, n + 1, Len(b))

\* utf8.Valid(b): b consists of well-formed encodings only.
RECURSIVE Valid(_)
Valid(b) ==
    IF b = <<>> THEN TRUE
    ELSE StartsWellFormed(b) /\ Valid(Drop(b, SizeOf(b[1])))

\* ------------------------------------------------------------ normalizeUTF8
\* The loop of normalizeUTF8: decode, keep the bytes unless the rune is
\* RuneError, go on after them.
RECURSIVE DecodeLoop(_, _)
DecodeLoop(b, out) ==
    IF Len(b) = 0 THEN out
    ELSE LET d == DecodeRune(b) IN
         DecodeLoop(Drop(b, d.size),
                    IF d.r # RuneError THEN out \o SubSeq(b, 1, d.size) ELSE out)

normalizeUTF8(b) == IF Valid(b) THEN b ELSE DecodeLoop(b, <<>>)

\* ---------------------------------------------------------------- roundTime
\* time.Microsecond, time.Millisecond and time.Second, in nanoseconds.
Microsecond == 1000
Millisecond == 1000000
Second      == 1000000000

\* Go's integer division truncates toward zero.
Quot(a, b) == IF a >= 0 THEN a \div b ELSE -((-a) \div b)

roundTime_truncate(t) ==
    IF t < Millisecond THEN t
    ELSE IF t < Second THEN Quot(t, Microsecond) * Microsecond
    ELSE Quot(t, Millisecond) * Millisecond

roundTime(t) ==
    IF t < Millisecond THEN t
    ELSE IF t < Second
    THEN Quot(t + Quot(Microsecond, 2), Microsecond) * Microsecond
    ELSE Quot(t + Quot(Millisecond, 2), Millisecond) * Millisecond

\* ----------------------------------------------------------------- pullRepo
\* What c.CombinedOutput() gives back: the bytes written, and err: nil, an
\* *exec.ExitError (whose Sys() is a syscall.WaitStatus or not, with the
\* exit status it reports), or another error (the command did not start).
CmdResult(errKind, waitStatus, status, out, elapsed) ==
    [err |-> errKind, waitStatus |-> waitStatus, status |-> status,
     out |-> out, elapsed |-> elapsed]

\* "<failure>\n" + err.Error() + "\n", as bytes; the error text is "E".
FailurePlaceholder == <<60, 102, 97, 105, 108, 117, 114, 101, 62, 10, 69, 10>>

\* The exit code pullRepo reports.
ExitCode_sentinelOnly(res) == IF res.err = "nil" THEN 0 ELSE -1

ExitCode(res) ==
    IF res.err = "nil" THEN 0
    ELSE IF res.err = "exit" /\ res.waitStatus THEN res.status
    ELSE -1

\* pullRepo's two results: the text "$ git pull --prune --quiet  (exit:%d in
\* %s)\n%s" by its parts, and whether err was nil.
pullRepo(res) ==
    LET out == IF res.err # "nil" /\ Len(res.out) = 0
               THEN FailurePlaceholder ELSE res.out
    IN [text |-> [cmds |-> "git pull --prune --quiet",
                  exit |-> ExitCode(res),
                  in   |-> roundTime(res.elapsed),
                  out  |-> normalizeUTF8(out)],
        ok   |-> res.err = "nil"]

\* ------------------------------------------------------------------ state
VARIABLES
    s,         \* the server value: WebHookSecret, mu (locked or not), wg (count)
    mainpc,    \* where mainImpl is
    err,       \* mainImpl's err variable
    exit,      \* "running", or the status the process exited with
    listener,  \* the goroutine started by "go http.ListenAndServe(a, nil)"
    conn,      \* per connection: where its handler goroutine is, and on what
    resp,      \* a finished run of ServeHTTP, request and response, until
               \* its client has taken notice of it
    call       \* a call of normalizeUTF8, roundTime or pullRepo on its own:
               \* its argument and its result

vars == <<s, mainpc, err, exit, listener, conn, resp, call>>

\* What the handler's call of pullRepo returned: nothing yet, or the exit
\* code in the text and the success flag.
NoReturn == [ran |-> FALSE, ok |-> FALSE, exit |-> 0]

Returned(ret) == [ran |-> TRUE, ok |-> ret.ok, exit |-> ret.text.exit]

Idle == [pc |-> "idle", req |-> NoRequest, calls |-> <<>>, ret |-> NoReturn]

NoResponse ==
    [req |-> NoRequest, status |-> 0, body |-> "", calls |-> <<>>,
     end |-> "none", ret |-> NoReturn]

Response(r, status, body, calls, end, ret) ==
    [req |-> r, status |-> status, body |-> body, calls |-> calls,
     end |-> end, ret |-> ret]

NoCall == [fn |-> "none", arg |-> <<>>, done |-> FALSE, result |-> <<>>]

\* A call about to be made, and the call once it has returned.
Pending(fn, arg) == [fn |-> fn, arg |-> arg, done |-> FALSE, result |-> <<>>]

Return(c, result) == [c EXCEPT !.done = TRUE, !.result = result]

\* server{WebHookSecret: *secret}: the mutex unlocked, the WaitGroup at zero.
ServerInit ==
    /\ s = [WebHookSecret |-> ConfiguredSecret, mu |-> FALSE, wg |-> 0]
    /\ mainpc = "start"
    /\ err = "nil"
    /\ exit = "running"
    /\ listener = "none"
    /\ conn = [c \in Conns |-> Idle]
    /\ resp = NoResponse

Init == ServerInit /\ call = NoCall

\* ---------------------------------------------------------------- mainImpl
\* mainImpl from its start to the select: Getwd, Executable and the probe
\* net.Listen may each fail, which returns the error; otherwise the serving
\* goroutine is started and the watcher is set up, which may fail too.
MainStartFails ==
    /\ mainpc = "start"
    /\ \E e \in {"getwd", "executable", "listen"} : err' = e
    /\ mainpc' = "exited"
    /\ exit' = "status 1"
    /\ UNCHANGED <<s, listener, conn, resp, call>>

MainStart_noHang ==
    /\ mainpc = "start"
    /\ listener' = "starting"
    /\ \E watching \in BOOLEAN :
         IF watching
         THEN mainpc' = "select" /\ err' = "nil"
         ELSE mainpc' = "wait" /\ err' = "watcher"
    /\ UNCHANGED <<s, exit, conn, resp, call>>

MainStart ==
    /\ mainpc = "start"
    /\ listener' = "starting"
    /\ \E watching \in BOOLEAN :
         IF watching
         THEN mainpc' = "select" /\ err' = "nil"
         ELSE mainpc' = "hang" /\ err' = "watcher"
    /\ UNCHANGED <<s, exit, conn, resp, call>>

\* http.ListenAndServe(a, nil) in its own goroutine: it binds the address
\* again and serves, or fails to bind and returns an error nobody reads.
ListenAndServe ==
    /\ exit = "running"
    /\ listener = "starting"
    /\ \E bound \in BOOLEAN :
         listener' = IF bound THEN "serving" ELSE "failed"
    /\ UNCHANGED <<s, mainpc, err, exit, conn, resp, call>>

\* case <-w.Events
WatchEvent ==
    /\ mainpc = "select"
    /\ mainpc' = "wait"
    /\ UNCHANGED <<s, err, exit, listener, conn, resp, call>>

\* case err = <-w.Errors
WatchError ==
    /\ mainpc = "select"
    /\ err' = "watch"
    /\ mainpc' = "wait"
    /\ UNCHANGED <<s, exit, listener, conn, resp, call>>

\* s.wg.Wait() returns once the counter is zero; mainImpl returns err and
\* main exits with status 1 if it is not nil.
WaitAndExit_statusZero ==
    /\ mainpc = "wait"
    /\ s.wg = 0
    /\ mainpc' = "exited"
    /\ exit' = "status 0"
    /\ UNCHANGED <<s, err, listener, conn, resp, call>>

WaitAndExit ==
    /\ mainpc = "wait"
    /\ s.wg = 0
    /\ mainpc' = "exited"
    /\ exit' = IF err = "nil" THEN "status 0" ELSE "status 1"
    /\ UNCHANGED <<s, err, listener, conn, resp, call>>

\* ------------------------------------------------------- handler goroutines
\* A request arrives on connection c and ServeHTTP runs up to its return,
\* its panic (net/http recovers it and drops the connection without a
\* response), or its call of pullRepo.  Finished runs are observed one at
\* a time (resp is free): they share no state, so nothing is lost by it.
CanServe_gated(c) ==
    /\ exit = "running"
    /\ resp = NoResponse
    /\ listener = "serving"
    /\ \A d \in Conns : conn[d].pc = "idle"

CanServe(c) ==
    /\ exit = "running"
    /\ resp = NoResponse
    /\ listener = "serving"
    /\ conn[c].pc = "idle"

Serve(c) ==
    /\ CanServe(c)
    /\ \E r \in Requests :
         LET o == ServeHTTP(r, s.WebHookSecret) IN
         IF o.next = "pullRepo"
         THEN /\ conn' = [conn EXCEPT ![c] =
                            [pc |-> "pullRepo", req |-> r, calls |-> o.calls,
                             ret |-> NoReturn]]
              /\ UNCHANGED resp
         ELSE /\ resp' = Response(r, o.status, o.body, o.calls,
                                  IF o.next = "panic" THEN "panicked" ELSE "returned",
                                  NoReturn)
              /\ UNCHANGED conn
    /\ UNCHANGED <<s, mainpc, err, exit, listener, call>>

\* How the git command of a handler's pullRepo may end: well, with exit
\* status 1 and some output, or without having started.
ServedCmdResults ==
    { CmdResult("nil", FALSE, 0, <<65>>, Millisecond),
      CmdResult("exit", TRUE, 1, <<65>>, Millisecond),
      CmdResult("start", FALSE, 0, <<>>, Millisecond) }

\* The git command run by pullRepo ends, well or badly; pullRepo returns and
\* the handler drops what it returned (ret keeps it for the record only).
PullRepoReturns(c) ==
    /\ exit = "running"
    /\ conn[c].pc = "pullRepo"
    /\ \E res \in ServedCmdResults :
         conn' = [conn EXCEPT ![c].pc = "ack", ![c].ret = Returned(pullRepo(res))]
    /\ UNCHANGED <<s, mainpc, err, exit, listener, resp, call>>

\* What the handler writes after the type switch: io.WriteString(w, "{}"),
\* whatever pullRepo returned.
Ack_reportFailure(ret) ==
    IF ret.ok THEN [status |-> 200, body |-> "{}"]
    ELSE [status |-> 500, body |-> "pull failed"]

Ack(ret) == [status |-> 200, body |-> "{}"]

\* io.WriteString(w, "{}") after the type switch, and the handler returns.
WriteAck(c) ==
    /\ exit = "running"
    /\ resp = NoResponse
    /\ conn[c].pc = "ack"
    /\ resp' = Response(conn[c].req, Ack(conn[c].ret).status, Ack(conn[c].ret).body,
                        conn[c].calls, "returned", conn[c].ret)
    /\ conn' = [conn EXCEPT ![c] = Idle]
    /\ UNCHANGED <<s, mainpc, err, exit, listener, call>>

\* The client of the finished run has its answer (or its dropped
\* connection).
ClientDone ==
    /\ resp # NoResponse
    /\ resp' = NoResponse
    /\ UNCHANGED <<s, mainpc, err, exit, listener, conn, call>>

Next ==
    \/ MainStartFails
    \/ MainStart
    \/ ListenAndServe
    \/ WatchEvent
    \/ WatchError
    \/ WaitAndExit
    \/ \E c \in Conns : Serve(c)
    \/ \E c \in Conns : PullRepoReturns(c)
    \/ \E c \in Conns : WriteAck(c)
    \/ ClientDone

Spec == Init /\ [][Next]_vars

\* The Go scheduler runs every runnable goroutine: mainImpl goes on when it
\* can, the serving goroutine binds, and a handler that can write its
\* acknowledgment does.  Nothing makes the git command end, a watch event
\* happen or a request arrive.
FairSpec ==
    /\ Spec
    /\ WF_vars(MainStart)
    /\ WF_vars(ListenAndServe)
    /\ WF_vars(WaitAndExit)
    /\ WF_vars(ClientDone)
    /\ \A c \in Conns : WF_vars(WriteAck(c))

\* ------------------------------------------- the pure functions, called
\* on their own.  Byte strings up to MaxLen over bytes of every kind: ASCII
\* (41), the lead (C3) and continuation (A9) of a two-byte encoding, the
\* three bytes of U+FFFD (EF BF BD), and a byte no encoding contains (FF).
MaxLen == 4

TestBytes == {65, 195, 169, 239, 191, 189, 255}

ByteStrings == UNION { [1..n -> TestBytes] : n \in 0..MaxLen }

\* Elapsed times in nanoseconds: from zero, around one millisecond and
\* around one second every nanosecond within DurationWindow, and beyond one
\* second around every tenth of a millisecond up to GridSteps of them.
DurationWindow == 1100
GridSteps == 15

Durations ==
    (0..DurationWindow)
    \cup ((Millisecond - DurationWindow)..(Millisecond + DurationWindow))
    \cup ((Second - DurationWindow)..(Second + DurationWindow))
    \cup { Second + k * 100000 + j : k \in 0..GridSteps, j \in {-1, 0, 1} }

\* Results of the git command: every kind of error, with and without a wait
\* status, exit statuses (-1 is what ExitStatus gives for a signal), no
\* output, valid and ill-formed output, three elapsed times.
CmdResults ==
    { CmdResult(e, w, st, out, d) :
        e \in {"nil", "exit", "start"}, w \in BOOLEAN, st \in {-1, 1, 128},
        out \in {<<>>, <<65>>, <<255>>, <<239, 191, 189, 255>>},
        d \in {0, Millisecond + 500, Second} }

\* One call of one of the functions on one argument.
FuncInit ==
    /\ ServerInit
    /\ call \in { Pending("normalizeUTF8", b) : b \in ByteStrings }
                  \cup { Pending("roundTime", t) : t \in Durations }
                  \cup { Pending("pullRepo", res) : res \in CmdResults }

CallNormalizeUTF8 ==
    /\ call.fn = "normalizeUTF8" /\ ~ call.done
    /\ call' = Return(call, normalizeUTF8(call.arg))
    /\ UNCHANGED <<s, mainpc, err, exit, listener, conn, resp>>

CallRoundTime ==
    /\ call.fn = "roundTime" /\ ~ call.done
    /\ call' = Return(call, roundTime(call.arg))
    /\ UNCHANGED <<s, mainpc, err, exit, listener, conn, resp>>

CallPullRepo ==
    /\ call.fn = "pullRepo" /\ ~ call.done
    /\ call' = Return(call, pullRepo(call.arg))
    /\ UNCHANGED <<s, mainpc, err, exit, listener, conn, resp>>

FuncNext ==
    \/ CallNormalizeUTF8
    \/ CallRoundTime
    \/ CallPullRepo

FuncSpec == FuncInit /\ [][FuncNext]_vars

\* ------------------------------------------------------------- properties
RootPaths == {"", "/"}

\* The signature header is the HMAC of the body as sent, under the secret
\* the server was started with.
CorrectlySigned(r) == r.sig = Signature("sha1", HMAC(s.WebHookSecret, r.body))

\* A root-path POST, correctly signed, of type push, whose body parses to a
\* push event with a head commit.
IsPushTrigger(r) ==
    /\ r.path \in RootPaths
    /\ r.method = "POST"
    /\ CorrectlySigned(r)
    /\ r.type = "push"
    /\ r.body.json
    /\ r.body.head # "nil"

\* The connections whose handler is inside pullRepo.
Pulling == { c \in Conns : conn[c].pc = "pullRepo" }

\* How often a run of the handler called pullRepo.
Executions(calls) == Cardinality({ i \in DOMAIN calls : calls[i] = "pullRepo" })

Finished == resp.end # "none"

\* C1: at most one execution of pullRepo is in progress at any instant,
\* whatever the interleaving of concurrently handled requests.
C1_AtMostOneExecution == Cardinality(Pulling) <= 1

\* C2: a push trigger is acknowledged without waiting for its pullRepo: once
\* its execution has begun, the response is sent (the handler gets back to
\* idle) even if the command never ends, unless the process exits first.
C2_AckWithoutWaiting ==
    \A c \in Conns :
        (conn[c].pc = "pullRepo") ~> (conn[c].pc = "idle" \/ exit # "running")

\* C3: the process has not exited through the shutdown path (watch event or
\* watch error, then the drain) while an execution of pullRepo is running.
C3_NoExitDuringExecution ==
    (mainpc = "exited" /\ err \in {"nil", "watch"}) => Pulling = {}

\* C4: the outstanding-task counter server.wg equals the number of triggered
\* synchronization tasks that have not completed yet.
C4_CounterCountsTasks == s.wg = Cardinality(Pulling)

\* C5: every correctly signed root-path POST of a push event that carries a
\* head commit causes exactly one execution of pullRepo.
C5_ExactlyOneExecution ==
    (Finished /\ IsPushTrigger(resp.req)) => Executions(resp.calls) = 1

\* C6: pullRepo is executed only for a root-path POST that is correctly
\* signed, of type push, and parses to a push event with a head commit;
\* every other request causes no execution.
C6_OnlyPushTriggers ==
    /\ \A c \in Conns : conn[c].pc # "idle" => IsPushTrigger(conn[c].req)
    /\ (Finished /\ ~ IsPushTrigger(resp.req)) => Executions(resp.calls) = 0

\* C6 witness: a correctly signed branch deletion was answered 200 without
\* an execution while a push with a head commit is executing.
C6_Witness ==
    /\ Finished
    /\ resp.req.path = "/" /\ resp.req.method = "POST"
    /\ CorrectlySigned(resp.req)
    /\ resp.req.type = "push" /\ resp.req.body = PushDeleted
    /\ resp.status = 200 /\ Executions(resp.calls) = 0
    /\ Pulling # {}

\* C7: a root-path POST whose signature header is not the HMAC of its body
\* under the configured secret is answered 401 and executes nothing,
\* whatever its event type and body.
C7_BadSignatureIs401 ==
    /\ (Finished /\ resp.req.path \in RootPaths /\ resp.req.method = "POST"
          /\ ~ CorrectlySigned(resp.req))
       => (resp.end = "returned" /\ resp.status = 401
             /\ Executions(resp.calls) = 0)
    /\ \A c \in Conns : conn[c].pc # "idle" => CorrectlySigned(conn[c].req)

\* C7 witness: an ordinary push body, altered after it was signed, was
\* answered 401.
C7_Witness ==
    /\ Finished
    /\ resp.req.path = "/" /\ resp.req.method = "POST"
    /\ resp.req.type = "push" /\ resp.req.body = PushFull
    /\ resp.req.sig = Signature("sha1", HMAC(s.WebHookSecret, Tampered(PushFull)))
    /\ resp.status = 401

\* C8: a request for a path other than the root is answered 404 with no
\* further processing, for every method, signature and body; a request for
\* the root is never answered 404 (it goes on to the method rules).
C8_NonRootIs404 ==
    /\ (Finished /\ resp.req.path \notin RootPaths)
       => (resp.end = "returned" /\ resp.status = 404 /\ resp.calls = <<>>)
    /\ (Finished /\ resp.req.path \in RootPaths) => resp.status # 404
    /\ \A c \in Conns : conn[c].pc # "idle" => conn[c].req.path \in RootPaths

\* C8 witness: a correctly signed push with a head commit, POSTed to /foo,
\* was answered 404.
C8_Witness ==
    /\ Finished
    /\ resp.req.path = "/foo" /\ resp.req.method = "POST"
    /\ CorrectlySigned(resp.req)
    /\ resp.req.type = "push" /\ resp.req.body = PushFull
    /\ resp.status = 404

\* C9: at the root path HEAD is answered a bare 200, GET 200 with the
\* uptime, and a method other than HEAD, GET and POST 405; none of them
\* checks the signature, reads the event type or executes anything.
C9_MethodRules ==
    (Finished /\ resp.req.path \in RootPaths) =>
        /\ resp.req.method = "HEAD" =>
             (resp.end = "returned" /\ resp.status = 200 /\ resp.body = ""
                /\ resp.calls = <<>>)
        /\ resp.req.method = "GET" =>
             (resp.end = "returned" /\ resp.status = 200 /\ resp.body = "uptime"
                /\ resp.calls = <<>>)
        /\ resp.req.method \notin {"HEAD", "GET", "POST"} =>
             (resp.end = "returned" /\ resp.status = 405 /\ resp.calls = <<>>)

\* C9 witness: an unsigned HEAD of the root was answered 200 without a body.
C9_Witness ==
    /\ Finished
    /\ resp.req.path = "/" /\ resp.req.method = "HEAD"
    /\ resp.req.sig = NoSignature
    /\ resp.status = 200 /\ resp.body = ""

\* C10: a correctly signed root-path POST is answered by event type, then
\* body: ping gets 200 {} without the body being parsed; a body that does
\* not parse gets 400; every event that parses gets 200 {}.  Neither ping
\* nor an unparsable body executes anything.
C10_SignedPostOutcome ==
    (Finished /\ resp.req.path \in RootPaths /\ resp.req.method = "POST"
       /\ CorrectlySigned(resp.req)) =>
        IF resp.req.type = "ping"
        THEN resp.status = 200 /\ resp.body = "{}"
               /\ resp.calls = <<"ValidatePayload", "WebHookType">>
        ELSE IF ParseWebHook(resp.req.type, resp.req.body).err
        THEN resp.status = 400 /\ Executions(resp.calls) = 0
        ELSE resp.status = 200 /\ resp.body = "{}"

\* C11: the answer to a push trigger is 200 {} whether its git command
\* succeeded, exited non-zero or did not start; pullRepo was executed once
\* (no retry), and the mutex is free and the counter at its value of before.
C11_AckHidesOutcome ==
    (Finished /\ resp.ret.ran) =>
        /\ resp.end = "returned" /\ resp.status = 200 /\ resp.body = "{}"
        /\ Executions(resp.calls) = 1
        /\ ~ s.mu /\ s.wg = 0

\* C11 witness: a trigger whose command failed was answered 200 {} and the
\* next trigger is executing.
C11_Witness ==
    /\ Finished /\ resp.ret.ran /\ ~ resp.ret.ok
    /\ resp.status = 200 /\ resp.body = "{}"
    /\ Pulling # {}

\* A step in which a request is accepted: an idle handler starts pullRepo,
\* or finishes a run at once.
Accepts ==
    \E c \in Conns :
        /\ conn[c].pc = "idle"
        /\ \/ conn'[c].pc = "pullRepo"
           \/ (conn' = conn /\ resp = NoResponse /\ resp' # NoResponse)

\* C12: once the restart signal or a watch error has been observed, no
\* request is accepted any more (and so no execution started) up to the
\* exit of the process.
C12_NoAcceptAfterSignal == [][mainpc = "wait" => ~ Accepts]_vars

\* C13: if the watch could not be set up (err is the watcher's error),
\* mainImpl stays in its empty select: the process is running, it has not
\* reached the drain or the exit, and a serving listener still takes a
\* request on every idle connection.
C13_NoWatchNoExit ==
    err = "watcher" =>
        /\ mainpc = "hang" /\ exit = "running"
        /\ \A c \in Conns :
             (listener = "serving" /\ conn[c].pc = "idle" /\ resp = NoResponse)
                => CanServe(c)

\* C13 witness: without a watch, a push trigger was executed (its command
\* failed) and answered, and the process is still in the empty select.
C13_Witness ==
    /\ err = "watcher" /\ mainpc = "hang" /\ exit = "running"
    /\ Finished /\ resp.ret.ran /\ ~ resp.ret.ok

\* C14: a listening port that cannot be bound ends the process with a
\* non-zero status, for the probe net.Listen of mainImpl and for the bind of
\* the serving goroutine alike: the process does not go on running without a
\* listener.
C14_BindFailureIsFatal ==
    /\ err = "listen" => exit = "status 1"
    /\ listener = "failed" => exit = "status 1"

\* C15: every run of the handler ends with one status out of 200, 400, 401,
\* 404 and 405 written; none ends in a panic, whatever the request holds.
C15_EveryRequestAnswered ==
    Finished => (resp.end = "returned" /\ resp.status \in {200, 400, 401, 404, 405})

\* Requests that trigger nothing: HEAD, GET, a wrong path, a wrong method,
\* an unsigned POST, a ping, an event that is no push, a branch deletion.
QuickRequests ==
    LET signed(b) == Signature("sha1", HMAC(ConfiguredSecret, b)) IN
    { Request("/", "HEAD", NoSignature, "push", PushFull),
      Request("/", "GET", NoSignature, "push", PushFull),
      Request("/foo", "POST", signed(PushFull), "push", PushFull),
      Request("/", "PUT", signed(PushFull), "push", PushFull),
      Request("/", "POST", NoSignature, "push", PushFull),
      Request("/", "POST", signed(PushFull), "ping", PushFull),
      Request("/", "POST", signed(PushFull), "issues", PushFull),
      Request("/", "POST", signed(PushDeleted), "push", PushDeleted) }

\* C16: while a pullRepo is in flight, a request that triggers nothing,
\* arriving on an idle connection, is taken up by its handler and runs to
\* its response there: it waits neither for the execution nor for any lock.
C16_NoWaitBehindExecution ==
    (Pulling # {} /\ exit = "running" /\ listener = "serving" /\ resp = NoResponse)
    => \A c \in Conns : conn[c].pc = "idle" =>
         /\ CanServe(c)
         /\ \A r \in QuickRequests :
              ServeHTTP(r, s.WebHookSecret).next = "return"

\* C16 witness: a GET was answered with the uptime while a pullRepo is in
\* flight.
C16_Witness ==
    /\ Pulling # {}
    /\ Finished /\ resp.req.method = "GET" /\ resp.req.path = "/"
    /\ resp.status = 200 /\ resp.body = "uptime"

\* C17: pullRepo always returns, with the outcome as data: exit code 0 and
\* success for a command that succeeded; otherwise no success, and the exit
\* status of the process if the error is an exit error with a wait status,
\* -1 if not; the output is the placeholder with the error text exactly when
\* the command failed without output, and the (sanitized) captured output
\* otherwise.
C17_PullRepoResult ==
    call.fn = "pullRepo" =>
        IF ~ call.done
        THEN pullRepo(call.arg).ok \in BOOLEAN /\ pullRepo(call.arg).text.exit \in Int
        ELSE LET a == call.arg
                 r == call.result
                 silentFailure == a.err # "nil" /\ a.out = <<>>
             IN /\ a.err = "nil" => (r.ok /\ r.text.exit = 0)
                /\ a.err # "nil" =>
                     /\ ~ r.ok
                     /\ r.text.exit =
                          IF a.err = "exit" /\ a.waitStatus THEN a.status ELSE -1
                /\ silentFailure => r.text.out = FailurePlaceholder
                /\ ~ silentFailure => r.text.out = normalizeUTF8(a.out)

\* C17 witness: a command that exited with status 128 without output was
\* reported with exit code 128, no success and the placeholder.
C17_Witness ==
    /\ call.fn = "pullRepo" /\ call.done
    /\ call.arg.err = "exit" /\ call.arg.waitStatus /\ call.arg.status = 128
    /\ call.arg.out = <<>>
    /\ call.result.text.exit = 128 /\ ~ call.result.ok
    /\ call.result.text.out = FailurePlaceholder

\* C18: a shutdown started by a watch event (err is nil) ends with exit
\* status 0, one started by a watch error with exit status 1; either way
\* the select is left for the drain s.wg.Wait(), and the exit is made from
\* the drain.
C18_ShutdownStatus ==
    /\ [](mainpc = "exited" =>
            /\ err = "nil" => exit = "status 0"
            /\ err = "watch" => exit = "status 1")
    /\ [][(mainpc = "select" /\ mainpc' # "select")
            => (mainpc' = "wait" /\ exit' = "running")]_vars
    /\ [][(mainpc # "exited" /\ mainpc' = "exited" /\ err' \in {"nil", "watch"})
            => mainpc = "wait"]_vars

\* C18 witness: the process has exited with status 1 after a watch error.
C18_Witness == mainpc = "exited" /\ err = "watch" /\ exit = "status 1"

\* The well-formed encodings of b, in order, each with its bytes unchanged;
\* every byte that starts none is left out.
RECURSIVE WellFormedUnits(_)
WellFormedUnits(b) ==
    IF b = <<>> THEN <<>>
    ELSE IF StartsWellFormed(b)
    THEN SubSeq(b, 1, SizeOf(b[1])) \o WellFormedUnits(Drop(b, SizeOf(b[1])))
    ELSE WellFormedUnits(Drop(b, 1))

\* C19: normalizeUTF8(B) is well-formed UTF-8, consists of exactly the
\* well-formed encodings of B in their order (a well-formed U+FFFD among
\* them), and normalizing it again changes nothing.
C19_KeepsWellFormedUnits ==
    (call.fn = "normalizeUTF8" /\ call.done) =>
        /\ Valid(call.result)
        /\ call.result = WellFormedUnits(call.arg)
        /\ normalizeUTF8(call.result) = call.result

====
